---------------------------- MODULE Spec2Model ----------------------------
(***************************************************************************)
(* A model of ai_agent_app.py (FitAI Pro): the profile validator           *)
(* validate_user_inputs, the plan pipeline get_ai_plan with its response   *)
(* clean-up and JSON parsing, and the Streamlit session state that the     *)
(* sidebar, the progress tracker and the goals form read and write.        *)
(*                                                                         *)
(* Text is a sequence of one-character strings, so that str.strip,         *)
(* str.startswith, slicing and json.loads are computed character by        *)
(* character, as Python computes them.  Numbers that may be floats are     *)
(* kept in tenths together with their Python type.                         *)
(***************************************************************************)
EXTENDS Integers, Sequences, FiniteSets, TLC

VARIABLES
    user_data,      \* st.session_state.user_data
    goals,          \* st.session_state.goals
    plan_data,      \* st.session_state.plan_data
    progress_log,   \* st.session_state.progress_log (rows, oldest first)
    api_key,        \* GEMINI_API_KEY is set
    pc,             \* where the script run is: Idle, Requesting, Parsing
    response,       \* the HTTP response of the current generation
    plan_text,      \* get_ai_plan's local plan_text as handed to json.loads
    ui,             \* what the generation of this run showed: st.error, st.text_area
    outcome,        \* how the generation of this run ended
    prompt,         \* what get_ai_plan's prompt_text interpolates
    fault,          \* the exception that ended the last script run, if any
    sent,           \* requests.post calls of the current generation
    outstanding,    \* requests sent and not yet answered
    pending,        \* the button was pressed while the run was blocked
    held,           \* plan_data as the current generation found it
    vin,            \* validate_user_inputs: the arguments of the last call
    vout,           \* validate_user_inputs: what that call returned
    args            \* get_ai_plan: the arguments of a direct call

vars == <<user_data, goals, plan_data, progress_log, api_key, pc, response,
          plan_text, prompt, ui, outcome, fault, sent, outstanding, pending,
          held, vin, vout, args>>

----------------------------------------------------------------------------
(* Characters and text                                                     *)

NL == "\n"
TAB == "\t"
CR == "\r"
DQ == "\""
BS == "\\"
SP == " "

\* str.strip() and json's WHITESPACE: the whitespace of the model's alphabet.
IsSpace(c) == c \in {SP, NL, TAB, CR}

\* str.strip(): from the first to the last character that is no whitespace.
Strip(s) ==
    LET inner == { i \in 1..Len(s) : ~IsSpace(s[i]) } IN
    IF inner = {} THEN <<>>
    ELSE SubSeq(s, CHOOSE i \in inner : \A k \in inner : i <= k,
                   CHOOSE j \in inner : \A k \in inner : j >= k)

\* str.startswith(prefix)
StartsWith(s, prefix) ==
    /\ Len(prefix) <= Len(s)
    /\ SubSeq(s, 1, Len(prefix)) = prefix

\* s[a:-b] for a >= 0 and b > 0: empty when the two ends cross.
Slice(s, a, b) == SubSeq(s, a + 1, Len(s) - b)

\* needle in hay, for two str
IsSubstring(needle, hay) ==
    \E i \in 1..(Len(hay) - Len(needle) + 1) :
        SubSeq(hay, i, i + Len(needle) - 1) = needle

\* The first index from i on where s holds a character of chars, and
\* Len(s) + 1 when there is none.
FirstOf(s, i, chars) ==
    CHOOSE j \in i..(Len(s) + 1) :
        /\ j = Len(s) + 1 \/ s[j] \in chars
        /\ \A k \in i..(j - 1) : s[k] \notin chars

\* The backquote character (a TLA+ string cannot hold one).
BT == "BACKQUOTE"

FENCE == <<BT, BT, BT>>
FENCE_JSON == <<BT, BT, BT, "j", "s", "o", "n">>
K_DIET == <<"d", "i", "e", "t", "_", "p", "l", "a", "n">>
K_GYM == <<"g", "y", "m", "_", "p", "l", "a", "n">>
K_CANDIDATES == <<"c", "a", "n", "d", "i", "d", "a", "t", "e", "s">>
K_CONTENT == <<"c", "o", "n", "t", "e", "n", "t">>
K_PARTS == <<"p", "a", "r", "t", "s">>
K_TEXT == <<"t", "e", "x", "t">>

----------------------------------------------------------------------------
(* Python values as json.loads builds them.  A dict is the sequence of its *)
(* items in insertion order, keys unique.                                  *)

PyNone == [t |-> "none", v |-> 0]
PyBool(b) == [t |-> "bool", v |-> b]
PyInt(n) == [t |-> "int", v |-> n]
PyStr(s) == [t |-> "str", v |-> s]
PyList(items) == [t |-> "list", v |-> items]
PyDict(items) == [t |-> "dict", v |-> items]

\* key in d, for a dict d
DictHas(d, k) == \E i \in 1..Len(d.v) : d.v[i].k = k

\* d[key], for a dict d that has the key
DictGet(d, k) == d.v[CHOOSE i \in 1..Len(d.v) : d.v[i].k = k].v

\* d[key] = value on the items of a dict: a repeated key keeps its place and
\* takes the later value.
DictPut(items, k, val) ==
    IF \E i \in 1..Len(items) : items[i].k = k
    THEN [i \in 1..Len(items) |->
             IF items[i].k = k THEN [k |-> k, v |-> val] ELSE items[i]]
    ELSE Append(items, [k |-> k, v |-> val])

----------------------------------------------------------------------------
(* json.loads: the strict decoder of Python's json module, for the JSON    *)
(* this model's texts are made of: objects, arrays, strings with the       *)
(* two-character escapes, integers, true, false, null.                     *)

Fail(i) == [ok |-> FALSE, val |-> PyNone, pos |-> i]
Done(val, i) == [ok |-> TRUE, val |-> val, pos |-> i]

RECURSIVE SkipWs(_, _)
SkipWs(s, i) ==
    IF i <= Len(s) /\ IsSpace(s[i]) THEN SkipWs(s, i + 1) ELSE i

At(s, i) == IF i >= 1 /\ i <= Len(s) THEN s[i] ELSE "EOF"

DIGITS == <<"0", "1", "2", "3", "4", "5", "6", "7", "8", "9">>
IsDigit(c) == \E d \in 1..10 : DIGITS[d] = c
DigitVal(c) == (CHOOSE d \in 1..10 : DIGITS[d] = c) - 1

\* The character a backslash escape stands for ("" for one that is no escape).
Unescape(c) ==
    CASE c = DQ -> DQ
      [] c = BS -> BS
      [] c = "/" -> "/"
      [] c = "n" -> NL
      [] c = "t" -> TAB
      [] c = "r" -> CR
      [] OTHER -> ""

\* py_scanstring, from the character after the opening quote: chunk by
\* chunk, each chunk running up to the next quote, backslash or control
\* character (STRINGCHUNK).
RECURSIVE ScanString(_, _, _)
ScanString(s, i, acc) ==
    LET j == FirstOf(s, i, {DQ, BS, NL, TAB, CR})
        c == At(s, j)
        chunk == acc \o SubSeq(s, i, j - 1)
    IN  IF c = DQ THEN Done(PyStr(chunk), j + 1)
        ELSE IF c = BS THEN
            LET e == Unescape(At(s, j + 1)) IN
            IF e = "" THEN Fail(j) ELSE ScanString(s, j + 2, Append(chunk, e))
        ELSE Fail(j)

RECURSIVE ScanDigits(_, _, _)
ScanDigits(s, i, n) ==
    IF IsDigit(At(s, i)) THEN ScanDigits(s, i + 1, 10 * n + DigitVal(s[i]))
    ELSE [n |-> n, pos |-> i]

\* NUMBER_RE, integers only: -?(0|[1-9][0-9]*)
ScanNumber(s, i) ==
    LET neg == At(s, i) = "-"
        j == IF neg THEN i + 1 ELSE i
        c == At(s, j)
    IN  IF ~IsDigit(c) THEN Fail(i)
        ELSE IF c = "0" THEN Done(PyInt(0), j + 1)
        ELSE LET r == ScanDigits(s, j, 0)
             IN  Done(PyInt(IF neg THEN 0 - r.n ELSE r.n), r.pos)

Matches(s, i, word) ==
    /\ i + Len(word) - 1 <= Len(s)
    /\ SubSeq(s, i, i + Len(word) - 1) = word

RECURSIVE ScanOnce(_, _)
RECURSIVE ScanArrayItems(_, _, _)
RECURSIVE ScanObjectItems(_, _, _)

\* JSONArray, at the first value of a non-empty array
ScanArrayItems(s, i, acc) ==
    LET r == ScanOnce(s, i) IN
    IF ~r.ok THEN Fail(i)
    ELSE LET j == SkipWs(s, r.pos)
             items == Append(acc, r.val)
         IN  IF At(s, j) = "]" THEN Done(PyList(items), j + 1)
             ELSE IF At(s, j) = "," THEN ScanArrayItems(s, SkipWs(s, j + 1), items)
             ELSE Fail(j)

\* JSONObject, at the opening quote of a key
ScanObjectItems(s, i, acc) ==
    IF At(s, i) # DQ THEN Fail(i)
    ELSE LET k == ScanString(s, i + 1, <<>>) IN
         IF ~k.ok THEN Fail(i)
         ELSE LET c == SkipWs(s, k.pos) IN
              IF At(s, c) # ":" THEN Fail(c)
              ELSE LET r == ScanOnce(s, SkipWs(s, c + 1)) IN
                   IF ~r.ok THEN Fail(c)
                   ELSE LET j == SkipWs(s, r.pos)
                            items == DictPut(acc, k.val.v, r.val)
                        IN  IF At(s, j) = "}" THEN Done(PyDict(items), j + 1)
                            ELSE IF At(s, j) = ","
                                 THEN ScanObjectItems(s, SkipWs(s, j + 1), items)
                            ELSE Fail(j)

\* scan_once: one JSON value starting exactly at i
ScanOnce(s, i) ==
    LET c == At(s, i) IN
    IF c = DQ THEN ScanString(s, i + 1, <<>>)
    ELSE IF c = "{" THEN
        LET j == SkipWs(s, i + 1) IN
        IF At(s, j) = "}" THEN Done(PyDict(<<>>), j + 1)
        ELSE ScanObjectItems(s, j, <<>>)
    ELSE IF c = "[" THEN
        LET j == SkipWs(s, i + 1) IN
        IF At(s, j) = "]" THEN Done(PyList(<<>>), j + 1)
        ELSE ScanArrayItems(s, j, <<>>)
    ELSE IF Matches(s, i, <<"n", "u", "l", "l">>) THEN Done(PyNone, i + 4)
    ELSE IF Matches(s, i, <<"t", "r", "u", "e">>) THEN Done(PyBool(TRUE), i + 4)
    ELSE IF Matches(s, i, <<"f", "a", "l", "s", "e">>) THEN Done(PyBool(FALSE), i + 5)
    ELSE ScanNumber(s, i)

\* json.loads(s): [ok, val]; ok = FALSE stands for json.JSONDecodeError.
JsonLoads(s) ==
    LET r == ScanOnce(s, SkipWs(s, 1)) IN
    IF r.ok /\ SkipWs(s, r.pos) = Len(s) + 1
    THEN [ok |-> TRUE, val |-> r.val]
    ELSE [ok |-> FALSE, val |-> PyNone]

----------------------------------------------------------------------------
(* Python operations get_ai_plan applies to the decoded values             *)

\* key in x: [ok, val]; ok = FALSE stands for TypeError (x is no container).
PyIn(key, x) ==
    CASE x.t = "dict" -> [ok |-> TRUE, val |-> DictHas(x, key)]
      [] x.t = "list" ->
            [ok |-> TRUE, val |-> \E i \in 1..Len(x.v) : x.v[i] = PyStr(key)]
      [] x.t = "str" -> [ok |-> TRUE, val |-> IsSubstring(key, x.v)]
      [] OTHER -> [ok |-> FALSE, val |-> FALSE]

Raise(exc) == [ok |-> FALSE, exc |-> exc, val |-> PyNone]
Value(val) == [ok |-> TRUE, exc |-> "", val |-> val]

\* x["key"]
GetKey(x, key) ==
    CASE x.t = "dict" ->
            IF DictHas(x, key) THEN Value(DictGet(x, key)) ELSE Raise("KeyError")
      [] OTHER -> Raise("TypeError")

\* x[0]
GetFirst(x) ==
    CASE x.t = "list" -> IF Len(x.v) > 0 THEN Value(x.v[1]) ELSE Raise("IndexError")
      [] x.t = "str" ->
            IF Len(x.v) > 0 THEN Value(PyStr(<<x.v[1]>>)) ELSE Raise("IndexError")
      [] x.t = "dict" -> Raise("KeyError")
      [] OTHER -> Raise("TypeError")

\* response_data["candidates"][0]["content"]["parts"][0]["text"]
ExtractText(response_data) ==
    LET a == GetKey(response_data, K_CANDIDATES)
        b == IF a.ok THEN GetFirst(a.val) ELSE a
        c == IF b.ok THEN GetKey(b.val, K_CONTENT) ELSE b
        d == IF c.ok THEN GetKey(c.val, K_PARTS) ELSE c
        e == IF d.ok THEN GetFirst(d.val) ELSE d
    IN  IF e.ok THEN GetKey(e.val, K_TEXT) ELSE e

RECURSIVE IntDigits(_)
IntDigits(n) ==
    IF n < 10 THEN <<DIGITS[n + 1]>>
    ELSE Append(IntDigits(n \div 10), DIGITS[(n % 10) + 1])

\* str(n) for an int
IntText(n) == IF n < 0 THEN <<"-">> \o IntDigits(0 - n) ELSE IntDigits(n)

\* The characters of s as repr writes them between quotes q, from i on.
RECURSIVE ReprChars(_, _, _)
ReprChars(s, i, q) ==
    LET j == FirstOf(s, i, {BS, NL, TAB, CR, q})
        c == At(s, j)
        e == CASE c = NL -> "n"
               [] c = TAB -> "t"
               [] c = CR -> "r"
               [] OTHER -> c
    IN  IF j > Len(s) THEN SubSeq(s, i, Len(s))
        ELSE SubSeq(s, i, j - 1) \o <<BS, e>> \o ReprChars(s, j + 1, q)

\* repr(s) for a str: single quotes, unless s holds one and no double quote.
StrRepr(s) ==
    LET has(c) == \E i \in 1..Len(s) : s[i] = c
        q == IF has("'") /\ ~has(DQ) THEN DQ ELSE "'"
    IN  <<q>> \o ReprChars(s, 1, q) \o <<q>>

RECURSIVE PyRepr(_)
RECURSIVE ReprItems(_, _)

\* The items of a list or dict display, separated by ", ".
ReprItems(items, isDict) ==
    IF items = <<>> THEN <<>>
    ELSE LET h == Head(items)
             one == IF isDict THEN StrRepr(h.k) \o <<":", SP>> \o PyRepr(h.v)
                    ELSE PyRepr(h)
         IN  IF Len(items) = 1 THEN one
             ELSE one \o <<",", SP>> \o ReprItems(Tail(items), isDict)

\* repr(x)
PyRepr(x) ==
    CASE x.t = "str" -> StrRepr(x.v)
      [] x.t = "int" -> IntText(x.v)
      [] x.t = "none" -> <<"N", "o", "n", "e">>
      [] x.t = "bool" ->
            IF x.v THEN <<"T", "r", "u", "e">> ELSE <<"F", "a", "l", "s", "e">>
      [] x.t = "list" -> <<"[">> \o ReprItems(x.v, FALSE) \o <<"]">>
      [] x.t = "dict" -> <<"{">> \o ReprItems(x.v, TRUE) \o <<"}">>

\* str(x)
PyToStr(x) == IF x.t = "str" THEN x.v ELSE PyRepr(x)

\* bool(x)
Truthy(x) ==
    CASE x.t = "none" -> FALSE
      [] x.t = "bool" -> x.v
      [] x.t = "int" -> x.v # 0
      [] OTHER -> Len(x.v) > 0

----------------------------------------------------------------------------
(* validate_user_inputs                                                    *)

\* An argument of validate_user_inputs: its Python type and, for a number,
\* its value in tenths.  "str" is a decimal integer literal such as "42",
\* "badstr" any other text.
Num(ty, v10) == [ty |-> ty, v10 |-> v10]
IntNum(n) == Num("int", 10 * n)
FloatNum(v10) == Num("float", v10)

\* int(x): [ok, val, exc]
IntOf(x) ==
    CASE x.ty = "int" -> [ok |-> TRUE, val |-> x.v10 \div 10, exc |-> ""]
      [] x.ty = "float" ->
            [ok |-> TRUE, exc |-> "",
             val |-> IF x.v10 >= 0 THEN x.v10 \div 10 ELSE 0 - ((0 - x.v10) \div 10)]
      [] x.ty = "str" -> [ok |-> TRUE, val |-> x.v10 \div 10, exc |-> ""]
      [] x.ty = "badstr" -> [ok |-> FALSE, val |-> 0, exc |-> "ValueError"]
      [] x.ty = "nan" -> [ok |-> FALSE, val |-> 0, exc |-> "ValueError"]
      [] x.ty = "inf" -> [ok |-> FALSE, val |-> 0, exc |-> "OverflowError"]
      [] OTHER -> [ok |-> FALSE, val |-> 0, exc |-> "TypeError"]

AGE_MIN == 13
AGE_MAX == 100
HEIGHT_MIN == 100
HEIGHT_MAX == 250
WEIGHT_MIN == 30
WEIGHT_MAX == 300

MSG_TYPE == "Invalid input types. Please enter numeric values."
MSG_AGE == "Age must be between 13 and 100 years."
MSG_HEIGHT == "Height must be between 100 and 250 cm."
MSG_WEIGHT == "Weight must be between 30 and 300 kg."

Returned(ok, msg) == [ok |-> ok, msg |-> msg, raised |-> ""]
Raised(exc) == [ok |-> FALSE, msg |-> "", raised |-> exc]

\* The age check with its lower bound off by one.
AgeOutOfRangeOffByOne(age) == age <= AGE_MIN \/ age > AGE_MAX

AgeOutOfRange(age) == age < AGE_MIN \/ age > AGE_MAX
HeightOutOfRange(height) == height < HEIGHT_MIN \/ height > HEIGHT_MAX
WeightOutOfRange(weight) == weight < WEIGHT_MIN \/ weight > WEIGHT_MAX

\* new_weight < 30.0 or new_weight > 300.0, on tenths
WeightOutOfRange10(w10) == w10 < 10 * WEIGHT_MIN \/ w10 > 10 * WEIGHT_MAX

\* validate_user_inputs(age, height, weight): (ok, msg), or the exception
\* that the except clause does not catch.
validate_user_inputs(age, height, weight) ==
    LET a == IntOf(age)
        h == IntOf(height)
        w == IntOf(weight)
        first == IF ~a.ok THEN a ELSE IF ~h.ok THEN h ELSE w
    IN  IF ~first.ok
        THEN IF first.exc \in {"ValueError", "TypeError"}
             THEN Returned(FALSE, MSG_TYPE)
             ELSE Raised(first.exc)
        ELSE IF AgeOutOfRange(a.val) THEN Returned(FALSE, MSG_AGE)
        ELSE IF HeightOutOfRange(h.val) THEN Returned(FALSE, MSG_HEIGHT)
        ELSE IF WeightOutOfRange(w.val) THEN Returned(FALSE, MSG_WEIGHT)
        ELSE Returned(TRUE, "")

----------------------------------------------------------------------------
(* get_ai_plan: from the HTTP response to the returned plan                *)

\* No text: of plan_text before the clean-up ran, of a st.text_area not shown.
NoText == <<"NONE">>

E_KEY == "Gemini API key is not set. Please add it to your Streamlit secrets."
E_USER == "Invalid user data format"
E_MISSING == "API response missing required diet_plan or gym_plan keys"
E_JSON == "Failed to parse JSON response"
E_FORMAT == "Unexpected API response format"
E_REQUEST == "API request failed"
E_PARSE == "Failed to parse the AI's response."
E_UNEXPECTED == "Unexpected error"

\* What one call of get_ai_plan did: the value returned, the st.error and the
\* st.text_area shown, the text handed to json.loads, and where it ended.
Result(plan, error, raw, handed, ended) ==
    [plan |-> plan, error |-> error, raw |-> raw, handed |-> handed, ended |-> ended]

\* The fence clean-up of plan_text.
CleanPlanText(text) ==
    IF StartsWith(Strip(text), FENCE_JSON) THEN Slice(Strip(text), 7, 4)
    ELSE IF StartsWith(Strip(text), FENCE) THEN Slice(Strip(text), 3, 3)
    ELSE text

\* The key check with "or" in place of "and".
HasEitherKey(x) ==
    LET d == PyIn(K_DIET, x) IN
    IF ~d.ok \/ d.val THEN d ELSE PyIn(K_GYM, x)

\* "diet_plan" in x and "gym_plan" in x: [ok, val], ok = FALSE for TypeError.
HasBothKeys(x) ==
    LET d == PyIn(K_DIET, x) IN
    IF ~d.ok \/ ~d.val THEN d ELSE PyIn(K_GYM, x)

\* The branch for a response that has "candidates".
CandidatesShape(response_data, body) ==
    LET t == ExtractText(response_data) IN
    IF ~t.ok
    THEN IF t.exc \in {"KeyError", "IndexError"}
         THEN Result(PyNone, E_PARSE, body, NoText, "ParseFailed")
         ELSE Result(PyNone, E_UNEXPECTED, NoText, NoText, "ParseFailed")
    ELSE LET cleaned == CleanPlanText(PyToStr(t.val))
             j == JsonLoads(cleaned)
         IN  IF ~j.ok
             THEN Result(PyNone, E_JSON, cleaned, cleaned, "ParseFailed")
             ELSE LET both == HasBothKeys(j.val) IN
                  IF ~both.ok
                  THEN Result(PyNone, E_UNEXPECTED, NoText, cleaned, "ParseFailed")
                  ELSE IF both.val
                  THEN Result(j.val, "", NoText, cleaned, "Ready")
                  ELSE Result(PyNone, E_MISSING, NoText, cleaned, "ParseFailed")

\* The branch without "candidates" that takes no plan from it.
DirectShapeUnsupported(response_data, body) ==
    Result(PyNone, E_FORMAT, body, NoText, "ParseFailed")

\* The branch for a response without "candidates": the plan itself.
DirectShape(response_data, body) ==
    LET both == HasBothKeys(response_data) IN
    IF both.val
    THEN Result(response_data, "", NoText, NoText, "Ready")
    ELSE Result(PyNone, E_FORMAT, body, NoText, "ParseFailed")

\* How a body that is no JSON ends: response.json() raises the JSONDecodeError
\* of the installed requests, which is a RequestException since requests 2.27,
\* json's own before that, and simplejson's where that is installed.
JsonErrorRoutes(body) ==
    { Result(PyNone, E_REQUEST, NoText, NoText, "ParseFailed"),
      Result(PyNone, E_PARSE, body, NoText, "ParseFailed"),
      Result(PyNone, E_UNEXPECTED, NoText, NoText, "ParseFailed") }

\* get_ai_plan from response.json() on: the results it can end with.
HandleBody(body) ==
    LET j == JsonLoads(body) IN
    IF ~j.ok THEN JsonErrorRoutes(body)
    ELSE LET c == PyIn(K_CANDIDATES, j.val) IN
         IF ~c.ok
         THEN {Result(PyNone, E_UNEXPECTED, NoText, NoText, "ParseFailed")}
         ELSE IF c.val THEN {CandidatesShape(j.val, body)}
         ELSE {DirectShape(j.val, body)}

----------------------------------------------------------------------------
(* The endpoint's side: how a response body is written.  The bodies below  *)
(* are built with this encoder and read back by JsonLoads above.           *)

\* The characters of s as a JSON string holds them, from i on.
RECURSIVE JsonEscape(_, _)
JsonEscape(s, i) ==
    LET j == FirstOf(s, i, {DQ, BS, NL, TAB, CR})
        c == At(s, j)
        e == CASE c = NL -> "n"
               [] c = TAB -> "t"
               [] c = CR -> "r"
               [] OTHER -> c
    IN  IF j > Len(s) THEN SubSeq(s, i, Len(s))
        ELSE SubSeq(s, i, j - 1) \o <<BS, e>> \o JsonEscape(s, j + 1)

JsonString(s) == <<DQ>> \o JsonEscape(s, 1) \o <<DQ>>

RECURSIVE JsonDumps(_)
RECURSIVE DumpItems(_, _)

DumpItems(items, isDict) ==
    IF items = <<>> THEN <<>>
    ELSE LET h == Head(items)
             one == IF isDict THEN JsonString(h.k) \o <<":">> \o JsonDumps(h.v)
                    ELSE JsonDumps(h)
         IN  IF Len(items) = 1 THEN one
             ELSE one \o <<",">> \o DumpItems(Tail(items), isDict)

\* The compact JSON text of a value.
JsonDumps(x) ==
    CASE x.t = "str" -> JsonString(x.v)
      [] x.t = "int" -> IntText(x.v)
      [] x.t = "none" -> <<"n", "u", "l", "l">>
      [] x.t = "bool" ->
            IF x.v THEN <<"t", "r", "u", "e">> ELSE <<"f", "a", "l", "s", "e">>
      [] x.t = "list" -> <<"[">> \o DumpItems(x.v, FALSE) \o <<"]">>
      [] x.t = "dict" -> <<"{">> \o DumpItems(x.v, TRUE) \o <<"}">>

Item(k, val) == [k |-> k, v |-> val]

\* {"diet_plan": diet, "gym_plan": gym}
PlanObject(diet, gym) == PyDict(<<Item(K_DIET, diet), Item(K_GYM, gym)>>)

\* {"candidates":[{"content":{"parts":[{"text": text}]}}]}
Envelope(text) ==
    PyDict(<<Item(K_CANDIDATES, PyList(<<
        PyDict(<<Item(K_CONTENT,
            PyDict(<<Item(K_PARTS, PyList(<<
                PyDict(<<Item(K_TEXT, text)>>) >>))>>))>>) >>))>>)

\* The body of the candidates-wrapped shape around a plan text.
WrappedBody(text) == JsonDumps(Envelope(PyStr(text)))

\* The body of the direct shape.
DirectBody(diet, gym) == JsonDumps(PlanObject(PyStr(diet), PyStr(gym)))

\* The strings a plan field takes here: empty, plain, and with the characters
\* JSON must escape (a line break, a double quote with a backslash).
PlanStrings == { <<>>, <<"A">>, <<"B">>, <<"#", NL>>, <<DQ, BS>> }

S_A == <<"A">>
S_B == <<"B">>

\* {"diet_plan":"A","gym_plan":"B"}
T_PLAN == DirectBody(S_A, S_B)

\* text without its last character, then tail: "...}" to "...,}"
ReplaceLast(text, tail) == SubSeq(text, 1, Len(text) - 1) \o tail

\* Plan texts the generator may emit in place of the clean object.
PlanTexts ==
    { T_PLAN,
      \* a trailing comma before the closing brace, bare and with whitespace
      ReplaceLast(T_PLAN, <<",", "}">>),
      ReplaceLast(T_PLAN, <<",", SP, NL, "}">>),
      \* a trailing comma before a closing bracket
      ReplaceLast(T_PLAN, <<",", DQ, "x", DQ, ":", "[", "1", ",", "]", "}">>),
      \* one field, or both, absent
      JsonDumps(PyDict(<<Item(K_DIET, PyStr(S_A))>>)),
      JsonDumps(PyDict(<<Item(K_GYM, PyStr(S_B))>>)),
      JsonDumps(PyDict(<<>>)),
      \* JSON that is no object
      JsonDumps(PyStr(K_DIET \o <<SP>> \o K_GYM)),
      JsonDumps(PyList(<<PyStr(K_DIET), PyStr(K_GYM)>>)),
      JsonDumps(PyInt(5)),
      JsonDumps(PyNone),
      \* fields that are no strings
      JsonDumps(PlanObject(PyInt(1), PyList(<<>>))),
      \* no JSON: cut short, prose, nothing
      SubSeq(T_PLAN, 1, Len(T_PLAN) - 2),
      <<"S", "o", "r", "r", "y">>,
      <<>> }

\* How the generator wraps a plan text: not at all, or in a code fence with
\* or without the language tag, the line breaks and the closing fence.
Fenced(text) ==
    { text,
      FENCE_JSON \o <<NL>> \o text \o <<NL>> \o FENCE,
      FENCE_JSON \o <<NL>> \o text \o FENCE,
      FENCE_JSON \o <<NL>> \o text,
      <<SP>> \o FENCE_JSON \o <<NL>> \o text \o <<NL>> \o FENCE \o <<NL>>,
      FENCE \o <<NL>> \o text \o <<NL>> \o FENCE,
      FENCE \o text \o FENCE,
      FENCE \o <<NL>> \o text }

WrappedBodies == { WrappedBody(f) : f \in UNION { Fenced(t) : t \in PlanTexts } }

DirectBodies == { DirectBody(a, b) : a \in PlanStrings, b \in PlanStrings }

WrappedCleanBodies ==
    { WrappedBody(DirectBody(a, b)) : a \in PlanStrings, b \in PlanStrings }

\* Bodies of neither shape: the envelope broken at each level, a text that is
\* no string, values that are no object, and bodies that are no JSON.
OddBodies ==
    { JsonDumps(x) : x \in
        { PyDict(<<Item(K_CANDIDATES, PyList(<<>>))>>),
          PyDict(<<Item(K_CANDIDATES, PyList(<<PyDict(<<>>)>>))>>),
          PyDict(<<Item(K_CANDIDATES, PyDict(<<>>))>>),
          PyDict(<<Item(K_CANDIDATES, PyStr(<<"x">>))>>),
          PyDict(<<Item(K_CANDIDATES, PyStr(<<>>))>>),
          PyDict(<<Item(K_CANDIDATES, PyNone)>>),
          PyDict(<<Item(K_CANDIDATES, PyList(<<PyDict(<<Item(K_CONTENT,
              PyDict(<<Item(K_PARTS, PyList(<<>>))>>))>>)>>))>>),
          Envelope(PyInt(5)),
          Envelope(PyNone),
          Envelope(PyList(<<PyStr(K_DIET), PyStr(K_GYM)>>)),
          Envelope(PlanObject(PyStr(S_A), PyStr(S_B))),
          PyDict(<<Item(K_DIET, PyStr(S_A))>>),
          PyDict(<<Item(K_GYM, PyStr(S_B))>>),
          PyDict(<<>>),
          PyList(<<PyStr(K_DIET), PyStr(K_GYM)>>),
          PyList(<<PyStr(K_CANDIDATES)>>),
          PyStr(K_CANDIDATES),
          PyStr(K_DIET \o K_GYM),
          PlanObject(PyInt(1), PyNone),
          PyInt(5),
          PyNone } }
    \cup { <<>>, <<"<", "h", "t", "m", "l", ">">>,
           SubSeq(T_PLAN, 1, Len(T_PLAN) - 1) }

Bodies == WrappedBodies \cup WrappedCleanBodies \cup DirectBodies \cup OddBodies

----------------------------------------------------------------------------
(* get_ai_plan: from its arguments to the prompt it sends                  *)

PyFloat(v100) == [t |-> "float", v |-> v100]    \* a finite float, in hundredths
PyInf == [t |-> "inf", v |-> 0]                 \* float("inf")
PyNan == [t |-> "nan", v |-> 0]                 \* float("nan")

K_AGE == <<"a", "g", "e">>
K_GENDER == <<"g", "e", "n", "d", "e", "r">>
K_BMI == <<"b", "m", "i">>
K_MEDICAL == <<"m", "e", "d", "i", "c", "a", "l">>
K_DIET_PREF == <<"d", "i", "e", "t", "_", "p", "r", "e", "f">>
K_TARGET == <<"t", "a", "r", "g", "e", "t">>

T_NONE == <<"N", "o", "n", "e">>
T_MALE == <<"M", "a", "l", "e">>
T_NO_PREFERENCE ==
    <<"N", "o", SP, "P", "r", "e", "f", "e", "r", "e", "n", "c", "e">>
T_WEIGHT_LOSS == <<"W", "e", "i", "g", "h", "t", SP, "L", "o", "s", "s">>

\* d.get(key, default)
GetOr(d, key, default) == IF DictHas(d, key) THEN DictGet(d, key) ELSE default

\* The digits of s read as a decimal number, s being digits only.
RECURSIVE DigitsValue(_)
DigitsValue(s) ==
    IF s = <<>> THEN 0
    ELSE 10 * DigitsValue(SubSeq(s, 1, Len(s) - 1)) + DigitVal(s[Len(s)])

IsDigits(s) == s # <<>> /\ \A i \in 1..Len(s) : IsDigit(s[i])

\* int(x): the int in val, or the exception in exc.
PyIntOf(x) ==
    CASE x.t = "int" -> Value(x)
      [] x.t = "bool" -> Value(PyInt(IF x.v THEN 1 ELSE 0))
      [] x.t = "float" ->
            Value(PyInt(IF x.v >= 0 THEN x.v \div 100 ELSE 0 - ((0 - x.v) \div 100)))
      [] x.t = "inf" -> Raise("OverflowError")
      [] x.t = "nan" -> Raise("ValueError")
      [] x.t = "str" ->
            IF IsDigits(Strip(x.v)) THEN Value(PyInt(DigitsValue(Strip(x.v))))
            ELSE Raise("ValueError")
      [] OTHER -> Raise("TypeError")

\* float(x): the float in val, or the exception in exc.
PyFloatOf(x) ==
    CASE x.t = "int" -> Value(PyFloat(100 * x.v))
      [] x.t = "bool" -> Value(PyFloat(IF x.v THEN 100 ELSE 0))
      [] x.t \in {"float", "inf", "nan"} -> Value(x)
      [] x.t = "str" ->
            IF IsDigits(Strip(x.v)) THEN Value(PyFloat(100 * DigitsValue(Strip(x.v))))
            ELSE IF Strip(x.v) = <<"i", "n", "f">> THEN Value(PyInf)
            ELSE IF Strip(x.v) = <<"n", "a", "n">> THEN Value(PyNan)
            ELSE Raise("ValueError")
      [] OTHER -> Raise("TypeError")

\* f"{x:.2f}" for a float x that is not negative
Fixed2(x) ==
    CASE x.t = "inf" -> <<"i", "n", "f">>
      [] x.t = "nan" -> <<"n", "a", "n">>
      [] OTHER ->
            IntText(x.v \div 100) \o <<".", DIGITS[((x.v \div 10) % 10) + 1],
                                      DIGITS[(x.v % 10) + 1]>>

\* The values the prompt's f-string interpolates, each as the text it puts
\* in the prompt; the text around them is fixed.
PromptText(user_info, history) ==
    [age |-> IntText(user_info.age.v),
     gender |-> user_info.gender,
     bmi |-> Fixed2(user_info.bmi),
     medical |-> user_info.medical,
     diet_pref |-> user_info.diet_pref,
     target |-> user_info.target,
     history |-> IF Truthy(history) THEN PyToStr(history) ELSE <<>>]

NoPrompt == [age |-> <<>>, gender |-> <<>>, bmi |-> <<>>, medical |-> <<>>,
             diet_pref |-> <<>>, target |-> <<>>, history |-> <<>>]

\* What get_ai_plan does before requests.post: it reports an error and
\* returns None (error), lets an exception out (exc), or has its prompt.
Prepared(error, exc, prompt_text) ==
    [error |-> error, exc |-> exc, prompt |-> prompt_text]

\* get_ai_plan after its key check: the typing of user_info and the prompt.
PrepareWithKey(user_info, history) ==
    IF user_info.t # "dict" THEN Prepared("", "AttributeError", NoPrompt)
    ELSE LET age == PyIntOf(GetOr(user_info, K_AGE, PyInt(25)))
             bmi == PyFloatOf(GetOr(user_info, K_BMI, PyFloat(0)))
             first == IF ~age.ok THEN age ELSE bmi
         IN  IF ~first.ok
             THEN IF first.exc \in {"ValueError", "TypeError"}
                  THEN Prepared(E_USER, "", NoPrompt)
                  ELSE Prepared("", first.exc, NoPrompt)
             ELSE Prepared("", "",
                     PromptText(
                         [age |-> age.val,
                          gender |-> PyToStr(GetOr(user_info, K_GENDER, PyStr(T_MALE))),
                          bmi |-> bmi.val,
                          medical |-> PyToStr(GetOr(user_info, K_MEDICAL, PyStr(T_NONE))),
                          diet_pref |-> PyToStr(GetOr(user_info, K_DIET_PREF,
                                                      PyStr(T_NO_PREFERENCE))),
                          target |-> PyToStr(GetOr(user_info, K_TARGET,
                                                   PyStr(T_WEIGHT_LOSS)))],
                         history))

\* get_ai_plan without its key check.
PrepareKeyUnchecked(key_set, user_info, history) == PrepareWithKey(user_info, history)

\* get_ai_plan(user_info, history) up to its prompt, with the key set or not.
Prepare(key_set, user_info, history) ==
    IF ~key_set THEN Prepared(E_KEY, "", NoPrompt)
    ELSE PrepareWithKey(user_info, history)

----------------------------------------------------------------------------
(* The session: state, widgets and handlers.  Streamlit runs the script   *)
(* from top to bottom once per widget event: display_sidebar first, with  *)
(* the button's branch when the button was pressed, then the main layout  *)
(* with the dashboard, the plan tabs and the forms.  An exception that no *)
(* handler catches ends that run where it is raised.                      *)

NoResponse == [kind |-> "none", body |-> NoText]
OkResponse(body) == [kind |-> "ok", body |-> body]

\* What requests.post and raise_for_status raise a RequestException for.
TransportFailures ==
    { [kind |-> k, body |-> <<>>] : k \in {"timeout", "connection_error", "http_error"} }

\* The 2xx bodies a session is run against: a plan in each shape, a fenced
\* plan, and one body for each way the reply goes wrong.
SessionBodies ==
    { WrappedBody(T_PLAN),
      DirectBody(S_B, S_A),
      WrappedBody(FENCE_JSON \o <<NL>> \o T_PLAN \o <<NL>> \o FENCE),
      WrappedBody(ReplaceLast(T_PLAN, <<",", "}">>)),
      WrappedBody(JsonDumps(PyDict(<<Item(K_DIET, PyStr(S_A))>>))),
      WrappedBody(JsonDumps(PyStr(K_DIET \o <<SP>> \o K_GYM))),
      JsonDumps(PyDict(<<Item(K_CANDIDATES, PyList(<<>>))>>)),
      <<"<", "h", "t", "m", "l", ">">> }

NoUi == [error |-> "", raw |-> NoText]

DefaultUserData ==
    [age |-> 25, gender |-> T_MALE, height |-> 170, weight |-> IntNum(70),
     diet_pref |-> T_NO_PREFERENCE, target |-> T_WEIGHT_LOSS, conditions |-> <<>>]

DefaultGoals ==
    [target_weight |-> IntNum(65), target_sleep |-> IntNum(8),
     target_workouts |-> 4, target_calories |-> 2000]

NoCall == [age |-> IntNum(0), height |-> IntNum(0), weight |-> IntNum(0)]
NotCalled == Raised("not called")

\* An exception that ended the script run, and the part that raised it.
NoFault == [exc |-> "", at |-> ""]

\* No direct call of get_ai_plan.
NoArgs == [user_info |-> PyNone, history |-> PyNone]

\* The values the sidebar's widgets return: st.number_input("Age", 13, 100, ..)
\* and the two sliders keep them inside their ranges.  The widgets are set to
\* the least values, to the greatest, or to a weight of 65, which is also the
\* target weight a session starts with.
Widgets(age, height, weight, conditions) ==
    [age |-> age, height |-> height, weight |-> weight, conditions |-> conditions]

SidebarInputs ==
    { Widgets(AGE_MIN, HEIGHT_MIN, WEIGHT_MIN, <<>>),
      Widgets(AGE_MAX, HEIGHT_MAX, WEIGHT_MAX, <<"f", "l", "u">>),
      Widgets(25, 170, 65, <<>>) }

\* "Today's Weight (kg)": a float in [30.0, 300.0], here in tenths.
LogWeights == {650, 705}

\* "Target Weight (kg)": a float in [30.0, 300.0] in steps of 0.5, in tenths.
GoalWeights == {650, 700}

\* The progress log holds at most this many rows in the model.
MaxLog == 2

\* round(float(weight) / ((float(height) / 100.0) ** 2), 2) in hundredths, and
\* 0.0 for a height that is not positive.
Bmi100(weight, height) ==
    IF height > 0
    THEN (2 * 1000000 * weight + height * height) \div (2 * height * height)
    ELSE 0

\* user_info as the button's branch builds it: the stored profile's copy with
\* bmi and medical added.
UserInfo(ud, bmi100, conditions) ==
    PyDict(<<Item(K_AGE, PyInt(ud.age)),
             Item(K_GENDER, PyStr(ud.gender)),
             Item(<<"h", "e", "i", "g", "h", "t">>, PyInt(ud.height)),
             Item(<<"w", "e", "i", "g", "h", "t">>, PyInt(ud.weight.v10 \div 10)),
             Item(K_DIET_PREF, PyStr(ud.diet_pref)),
             Item(K_TARGET, PyStr(ud.target)),
             Item(<<"c", "o", "n", "d", "i", "t", "i", "o", "n", "s">>, PyStr(conditions)),
             Item(K_BMI, PyFloat(bmi100)),
             Item(K_MEDICAL, PyStr(IF conditions # <<>> THEN conditions ELSE T_NONE))>>)

\* display_dashboard's weight card: the progress divides by current weight
\* minus target weight.
DashboardFault(ud, g) ==
    IF ud.weight.v10 - g.target_weight.v10 = 0
    THEN [exc |-> "ZeroDivisionError", at |-> "display_dashboard"]
    ELSE NoFault

\* The Diet Plan tab: plan_data.get("diet_plan", ..), which a dict has.
PlanTabsFault(plan) ==
    IF plan.t = "dict" THEN NoFault ELSE [exc |-> "AttributeError", at |-> "plan tabs"]

\* The main layout down to its forms: the dashboard is the first tab with a
\* plan and without one; the plan's tabs follow it when there is a plan.
LayoutFault(ud, g, plan) ==
    IF DashboardFault(ud, g) # NoFault THEN DashboardFault(ud, g)
    ELSE IF Truthy(plan) THEN PlanTabsFault(plan)
    ELSE NoFault

\* The session as the script's first run leaves it.
SessionInit ==
    /\ user_data = DefaultUserData
    /\ goals = DefaultGoals
    /\ plan_data = PyNone
    /\ progress_log = <<>>
    /\ api_key \in BOOLEAN

\* No generation has run.
PipelineInit ==
    /\ pc = "Idle"
    /\ response = NoResponse
    /\ plan_text = NoText
    /\ prompt = NoPrompt
    /\ ui = NoUi
    /\ outcome = "None"
    /\ fault = NoFault
    /\ sent = 0
    /\ outstanding = 0
    /\ pending = FALSE
    /\ held = PyNone

Init ==
    /\ SessionInit
    /\ PipelineInit
    /\ vin = NoCall
    /\ vout = NotCalled
    /\ args = NoArgs

\* The profile stored before the validation is looked at.
StoredProfileUnchecked(ud, is_valid, age, height, weight, conditions) ==
    [ud EXCEPT !.age = age, !.height = height, !.weight = IntNum(weight),
               !.conditions = conditions]

\* The profile in session state after the button's branch: stored once the
\* validation has passed, left alone when it has not.
StoredProfile(ud, is_valid, age, height, weight, conditions) ==
    IF is_valid
    THEN [ud EXCEPT !.age = age, !.height = height, !.weight = IntNum(weight),
                    !.conditions = conditions]
    ELSE ud

\* st.session_state.plan_data = get_ai_plan(user_info), kept only when it is
\* a plan.
StoredPlanIfAny(old, returned) == IF returned = PyNone THEN old ELSE returned

\* st.session_state.plan_data = get_ai_plan(user_info)
StoredPlan(old, returned) == returned

\* A RequestException answered with another requests.post, once.
RetryOnRequestExceptionOnce(s) == s < 2

\* except RequestException: st.error, return None: whether get_ai_plan posts
\* again after s requests.
RetryOnRequestException(s) == FALSE

\* The button's branch of display_sidebar with the widgets at these values,
\* up to requests.post, which get_ai_plan reaches when it has its prompt; and
\* the rest of the script run when the branch ends before that.
GenerateHandler(age, height, weight, conditions) ==
    LET v == validate_user_inputs(IntNum(age), IntNum(height), IntNum(weight))
        ud == StoredProfile(user_data, v.ok, age, height, weight, conditions)
        p == Prepare(api_key, UserInfo(ud, Bmi100(weight, height), conditions),
                     PyStr(<<>>))
    IN
    /\ response' = NoResponse
    /\ plan_text' = NoText
    /\ vin' = [age |-> IntNum(age), height |-> IntNum(height), weight |-> IntNum(weight)]
    /\ vout' = v
    /\ user_data' = ud
    /\ held' = plan_data
    /\ pending' = FALSE
    /\ UNCHANGED <<goals, progress_log, api_key, args>>
    /\ IF ~v.ok
       THEN /\ ui' = [error |-> v.msg, raw |-> NoText]
            /\ outcome' = "Invalid"
            /\ sent' = 0
            /\ prompt' = NoPrompt
            /\ fault' = LayoutFault(ud, goals, plan_data)
            /\ UNCHANGED <<plan_data, pc, outstanding>>
       ELSE IF p.exc # ""
       THEN /\ ui' = NoUi
            /\ outcome' = "Raised"
            /\ sent' = 0
            /\ prompt' = NoPrompt
            /\ fault' = [exc |-> p.exc, at |-> "get_ai_plan"]
            /\ UNCHANGED <<plan_data, pc, outstanding>>
       ELSE IF p.error # ""
       THEN /\ ui' = [error |-> p.error, raw |-> NoText]
            /\ outcome' = IF p.error = E_KEY THEN "ConfigError" ELSE "UserDataError"
            /\ sent' = 0
            /\ prompt' = NoPrompt
            /\ plan_data' = StoredPlan(plan_data, PyNone)
            /\ fault' = LayoutFault(ud, goals, StoredPlan(plan_data, PyNone))
            /\ UNCHANGED <<pc, outstanding>>
       ELSE /\ ui' = NoUi
            /\ outcome' = "None"
            /\ sent' = 1
            /\ outstanding' = outstanding + 1
            /\ prompt' = p.prompt
            /\ pc' = "Requesting"
            /\ fault' = NoFault
            /\ UNCHANGED plan_data

\* The button served while the script is blocked in requests.post.
ClickGenerateWhileBlocked(age, height, weight, conditions) ==
    /\ pc \in {"Idle", "Requesting"}
    /\ GenerateHandler(age, height, weight, conditions)

\* "Generate My Plan" pressed: Streamlit serves it with a script run of its
\* own, which starts when no other run of the session is under way.
ClickGenerate(age, height, weight, conditions) ==
    /\ pc = "Idle"
    /\ GenerateHandler(age, height, weight, conditions)

\* "Generate My Plan" pressed while the script run is blocked in get_ai_plan:
\* Streamlit keeps the press for a rerun.
SubmitAgain ==
    /\ pc \in {"Requesting", "Parsing"}
    /\ ~pending
    /\ pending' = TRUE
    /\ UNCHANGED <<user_data, goals, plan_data, progress_log, api_key, pc, response,
                   plan_text, prompt, ui, outcome, fault, sent, outstanding, held,
                   vin, vout, args>>

\* requests.post returns or raises, then raise_for_status: a failure is
\* reported and get_ai_plan returns None, which the sidebar stores.  When a
\* rerun is waiting Streamlit may stop the run at its next Streamlit call,
\* here the st.error, and lets it finish otherwise.
Transport(r) ==
    /\ pc = "Requesting"
    /\ response' = r
    /\ UNCHANGED <<user_data, goals, progress_log, api_key, plan_text, prompt, held,
                   pending, vin, vout, args>>
    /\ IF r.kind = "ok"
       THEN /\ pc' = "Parsing"
            /\ outstanding' = outstanding - 1
            /\ UNCHANGED <<plan_data, ui, outcome, fault, sent>>
       ELSE IF RetryOnRequestException(sent)
       THEN /\ sent' = sent + 1
            /\ UNCHANGED <<pc, outstanding, plan_data, ui, outcome, fault>>
       ELSE /\ pc' = "Idle"
            /\ outstanding' = outstanding - 1
            /\ UNCHANGED sent
            /\ \E stopped \in (IF pending THEN BOOLEAN ELSE {FALSE}) :
                  IF stopped
                  THEN UNCHANGED <<plan_data, ui, outcome, fault>>
                  ELSE /\ plan_data' = StoredPlan(plan_data, PyNone)
                       /\ ui' = [error |-> E_REQUEST, raw |-> NoText]
                       /\ outcome' = "TransportFailed"
                       /\ fault' = LayoutFault(user_data, goals,
                                               StoredPlan(plan_data, PyNone))

\* response.json() and all that follows it in get_ai_plan; the sidebar stores
\* what get_ai_plan returns in plan_data, and the main layout is drawn.  A run
\* that Streamlit stops for a waiting rerun stops at its st.error, before the
\* store, or after the store when it shows no error.
ParseResponse ==
    /\ pc = "Parsing"
    /\ pc' = "Idle"
    /\ UNCHANGED <<user_data, goals, progress_log, api_key, response, prompt, sent,
                   outstanding, held, pending, vin, vout, args>>
    /\ \E res \in HandleBody(response.body),
          stopped \in (IF pending THEN BOOLEAN ELSE {FALSE}) :
          /\ plan_text' = res.handed
          /\ IF stopped /\ res.error # ""
             THEN UNCHANGED <<plan_data, ui, outcome, fault>>
             ELSE /\ plan_data' = StoredPlan(plan_data, res.plan)
                  /\ ui' = [error |-> res.error, raw |-> res.raw]
                  /\ outcome' = res.ended
                  /\ fault' = IF stopped THEN NoFault
                              ELSE LayoutFault(user_data, goals,
                                               StoredPlan(plan_data, res.plan))

\* "Log Progress" submitted in display_progress_tracker, the last of the tabs
\* with a plan and the last but one without: the run reaches the form when
\* the layout before it raised nothing.
LogProgress(new_weight) ==
    /\ pc = "Idle"
    /\ ~pending
    /\ fault = NoFault
    /\ Len(progress_log) < MaxLog
    /\ ~WeightOutOfRange10(new_weight)
    /\ ui' = NoUi
    /\ outcome' = "None"
    /\ fault' = LayoutFault(user_data, goals, plan_data)
    /\ IF LayoutFault(user_data, goals, plan_data) # NoFault
       THEN UNCHANGED <<progress_log, user_data>>
       ELSE /\ progress_log' = Append(progress_log,
                  [Date |-> "today", Weight |-> FloatNum(new_weight),
                   Body_Fat |-> FloatNum(200), Muscle_Mass |-> FloatNum(500)])
            /\ user_data' = [user_data EXCEPT !.weight = FloatNum(new_weight)]
    /\ UNCHANGED <<goals, plan_data, api_key, pc, response, plan_text, prompt, sent,
                   outstanding, held, pending, vin, vout, args>>

\* "Update Goals" submitted in display_goals_settings, the last tab of the
\* layout without a plan.
UpdateGoals(target_weight) ==
    /\ pc = "Idle"
    /\ ~pending
    /\ fault = NoFault
    /\ ~Truthy(plan_data)
    /\ ui' = NoUi
    /\ outcome' = "None"
    /\ fault' = DashboardFault(user_data, goals)
    /\ IF DashboardFault(user_data, goals) # NoFault
       THEN UNCHANGED goals
       ELSE goals' = [target_weight |-> FloatNum(target_weight),
                      target_sleep |-> FloatNum(80),
                      target_workouts |-> 4, target_calories |-> 2000]
    /\ UNCHANGED <<user_data, plan_data, progress_log, api_key, pc, response,
                   plan_text, prompt, sent, outstanding, held, pending, vin, vout,
                   args>>

Next ==
    \/ \E w \in SidebarInputs :
          ClickGenerate(w.age, w.height, w.weight, w.conditions)
    \/ SubmitAgain
    \/ \E r \in TransportFailures \cup { OkResponse(b) : b \in SessionBodies } :
          Transport(r)
    \/ ParseResponse
    \/ \E w \in LogWeights : LogProgress(w)
    \/ \E t \in GoalWeights : UpdateGoals(t)

Spec == Init /\ [][Next]_vars

----------------------------------------------------------------------------
(* The button's branch with the widgets' limits lifted: whole numbers on   *)
(* either side of each bound reach validate_user_inputs.                   *)

UnlimitedInputs ==
    SidebarInputs \cup
    { Widgets(AGE_MIN - 1, 170, 70, <<"f", "l", "u">>),
      Widgets(25, HEIGHT_MAX + 1, 70, <<>>),
      Widgets(25, 170, WEIGHT_MIN - 1, <<>>),
      Widgets(AGE_MAX + 1, HEIGHT_MIN - 1, WEIGHT_MAX + 1, <<>>) }

NextSidebar ==
    \/ \E w \in UnlimitedInputs :
          ClickGenerate(w.age, w.height, w.weight, w.conditions)
    \/ SubmitAgain
    \/ \E r \in TransportFailures \cup { OkResponse(b) : b \in SessionBodies } :
          Transport(r)
    \/ ParseResponse
    \/ \E w \in LogWeights : LogProgress(w)
    \/ \E t \in GoalWeights : UpdateGoals(t)

SpecSidebar == Init /\ [][NextSidebar]_vars

----------------------------------------------------------------------------
(* get_ai_plan's response handling on its own: a generation with the       *)
(* default profile has its 2xx response, with any of the bodies.           *)

InitParse ==
    /\ SessionInit
    /\ api_key = TRUE
    /\ pc = "Parsing"
    /\ response \in { OkResponse(b) : b \in Bodies }
    /\ plan_text = NoText
    /\ prompt = Prepare(TRUE, UserInfo(DefaultUserData, Bmi100(70, 170), <<>>),
                        PyStr(<<>>)).prompt
    /\ ui = NoUi
    /\ outcome = "None"
    /\ fault = NoFault
    /\ sent = 1
    /\ outstanding = 0
    /\ pending = FALSE
    /\ held = PyNone
    /\ vin = [age |-> IntNum(25), height |-> IntNum(170), weight |-> IntNum(70)]
    /\ vout = Returned(TRUE, "")
    /\ args = NoArgs

NextParse == ParseResponse

SpecParse == InitParse /\ [][NextParse]_vars

----------------------------------------------------------------------------
(* validate_user_inputs on its own, called with arguments of every kind    *)

AgeArgs ==
    { IntNum(n) : n \in {12, 13, 25, 100, 101} }
    \cup { FloatNum(129), FloatNum(130), FloatNum(1005), Num("str", 420),
           Num("badstr", 0), Num("none", 0), Num("nan", 0), Num("inf", 0) }

HeightArgs ==
    { IntNum(n) : n \in {99, 100, 170, 250, 251} }
    \cup { FloatNum(999), FloatNum(2505), Num("badstr", 0) }

WeightArgs ==
    { IntNum(n) : n \in {29, 30, 70, 300, 301} }
    \cup { FloatNum(299), FloatNum(3009), Num("none", 0) }

InitValidate ==
    /\ SessionInit
    /\ api_key = TRUE
    /\ PipelineInit
    /\ vin \in [age : AgeArgs, height : HeightArgs, weight : WeightArgs]
    /\ vout = NotCalled
    /\ args = NoArgs

CallValidate ==
    /\ vout = NotCalled
    /\ vout' = validate_user_inputs(vin.age, vin.height, vin.weight)
    /\ UNCHANGED <<user_data, goals, plan_data, progress_log, api_key, pc, response,
                   plan_text, prompt, ui, outcome, fault, sent, outstanding, held,
                   pending, vin, args>>

NextValidate == CallValidate

SpecValidate == InitValidate /\ [][NextValidate]_vars

----------------------------------------------------------------------------
(* get_ai_plan on its own, called with a user_info of every kind, up to    *)
(* the request it sends                                                    *)

Absent == [t |-> "absent", v |-> 0]

\* The item of a key, and none for a key the dict is built without.
Opt(key, val) == IF val = Absent THEN <<>> ELSE <<Item(key, val)>>

AgeValues ==
    { Absent, PyInt(25), PyStr(<<"4", "2">>), PyStr(<<"x">>), PyNone,
      PyFloat(2550), PyInf }

BmiValues == { Absent, PyFloat(2422), PyInt(22), PyStr(<<"x">>), PyNan }

MedicalValues ==
    { Absent, PyStr(<<>>), PyNone, PyStr(<<SP>>), PyStr(<<"f", "l", "u">>) }

UserInfos ==
    { PyDict(Opt(K_AGE, a) \o Opt(K_GENDER, g) \o Opt(K_BMI, b) \o Opt(K_MEDICAL, m)) :
        a \in AgeValues, g \in {Absent, PyStr(<<"O", "t", "h", "e", "r">>)},
        b \in BmiValues, m \in MedicalValues }
    \cup { PyNone }

InitCall ==
    /\ SessionInit
    /\ PipelineInit
    /\ vin = NoCall
    /\ vout = NotCalled
    /\ args \in [user_info : UserInfos, history : {PyStr(<<>>), PyStr(<<"h">>)}]

\* get_ai_plan(user_info, history) called, up to requests.post.
CallGetAiPlan ==
    LET p == Prepare(api_key, args.user_info, args.history) IN
    /\ pc = "Idle"
    /\ outcome = "None"
    /\ args # NoArgs
    /\ prompt' = p.prompt
    /\ IF p.exc # ""
       THEN /\ ui' = NoUi
            /\ outcome' = "Raised"
            /\ fault' = [exc |-> p.exc, at |-> "get_ai_plan"]
            /\ UNCHANGED <<pc, sent, outstanding>>
       ELSE IF p.error # ""
       THEN /\ ui' = [error |-> p.error, raw |-> NoText]
            /\ outcome' = IF p.error = E_KEY THEN "ConfigError" ELSE "UserDataError"
            /\ UNCHANGED <<pc, sent, outstanding, fault>>
       ELSE /\ pc' = "Requesting"
            /\ sent' = 1
            /\ outstanding' = outstanding + 1
            /\ UNCHANGED <<ui, outcome, fault>>
    /\ UNCHANGED <<user_data, goals, plan_data, progress_log, api_key, response,
                   plan_text, held, pending, vin, vout, args>>

SpecCall == InitCall /\ [][CallGetAiPlan]_vars

----------------------------------------------------------------------------
(* Properties                                                              *)

\* A PlanResult: an object with a diet_plan and a gym_plan, each a string.
IsPlanResult(x) ==
    /\ x.t = "dict"
    /\ DictHas(x, K_DIET) /\ DictGet(x, K_DIET).t = "str"
    /\ DictHas(x, K_GYM) /\ DictGet(x, K_GYM).t = "str"

\* A generation has run to its end.
Parsed == pc = "Idle" /\ response.kind = "ok"

\* The text of candidates[0].content.parts[0].text as received, and NoText
\* for a response that has none.
ReceivedText ==
    LET j == JsonLoads(response.body)
        t == IF j.ok THEN ExtractText(j.val) ELSE Raise("JSONDecodeError")
    IN  IF t.ok THEN PyToStr(t.val) ELSE NoText

\* text with every comma that only whitespace separates from a closing brace
\* or bracket removed, together with that whitespace.
RECURSIVE RemoveTrailingCommas(_, _)
RemoveTrailingCommas(s, i) ==
    LET j == FirstOf(s, i, {","})
        k == SkipWs(s, j + 1)
    IN  IF j > Len(s) THEN SubSeq(s, i, Len(s))
        ELSE IF At(s, k) \in {"}", "]"}
             THEN SubSeq(s, i, j - 1) \o RemoveTrailingCommas(s, k)
             ELSE SubSeq(s, i, j) \o RemoveTrailingCommas(s, j + 1)

\* C1: a plan text that is a valid plan object but for trailing commas before
\* a closing brace or bracket parses to the plan of the comma-free text.
C1_TrailingCommasRepaired ==
    (Parsed /\ plan_text # NoText) =>
        LET repaired == RemoveTrailingCommas(plan_text, 1)
            j == JsonLoads(repaired)
        IN  (repaired # plan_text /\ j.ok /\ IsPlanResult(j.val)) =>
                (outcome = "Ready" /\ plan_data = j.val)

EndsWith(s, suffix) ==
    /\ Len(suffix) <= Len(s)
    /\ SubSeq(s, Len(s) - Len(suffix) + 1, Len(s)) = suffix

\* What a fenced text holds between its fences: the text after the opening
\* fence and its language tag, up to the closing fence when there is one.
FencePayload(fenced) ==
    LET opener == IF StartsWith(fenced, FENCE_JSON) THEN FENCE_JSON ELSE FENCE
        rest == SubSeq(fenced, Len(opener) + 1, Len(fenced))
    IN  IF EndsWith(rest, FENCE) THEN SubSeq(rest, 1, Len(rest) - Len(FENCE))
        ELSE rest

\* C2: the text handed to the JSON parser is the received text when that
\* starts with no fence, and otherwise the payload between the fences with no
\* character of it removed (the whitespace around the payload aside).
C2_FenceStrippingExact ==
    (Parsed /\ plan_text # NoText) =>
        IF StartsWith(Strip(ReceivedText), FENCE)
        THEN Strip(plan_text) = Strip(FencePayload(Strip(ReceivedText)))
        ELSE plan_text = ReceivedText

\* The object the plan is read from: the decoded plan text of the candidates
\* shape, the decoded body of the direct shape.
ParsedPlanObject ==
    IF plan_text # NoText THEN JsonLoads(plan_text)
    ELSE LET j == JsonLoads(response.body) IN
         IF j.ok /\ j.val.t = "dict" /\ ~DictHas(j.val, K_CANDIDATES) THEN j
         ELSE [ok |-> FALSE, val |-> PyNone]

AbsentFields(x) == { k \in {K_DIET, K_GYM} : ~DictHas(x, k) }

\* The parsed plan object lacks a field.
LacksField ==
    /\ Parsed
    /\ ParsedPlanObject.ok
    /\ ParsedPlanObject.val.t = "dict"
    /\ AbsentFields(ParsedPlanObject.val) # {}

\* The plan fields an error message names.
FieldsNamed(error) == IF error = E_MISSING THEN {K_DIET, K_GYM} ELSE {}

C4_RawTextPreserved ==
    (Parsed /\ outcome = "ParseFailed" /\ JsonLoads(response.body).ok) =>
        ui.raw \in ({response.body, ReceivedText} \ {NoText})

\* C5: a plan that get_ai_plan returned is a PlanResult.
C5_PlanIsObjectOfStrings ==
    (Parsed /\ plan_data # PyNone) => IsPlanResult(plan_data)

\* C6: for all strings A and B, the direct body {"diet_plan":A,"gym_plan":B}
\* and the candidates body around the clean JSON text of that object both
\* succeed, with the same plan of A and B.
C6_ShapesEquivalent ==
    \A a \in PlanStrings, b \in PlanStrings :
        (Parsed /\ response.body \in {DirectBody(a, b), WrappedBody(DirectBody(a, b))}) =>
            /\ outcome = "Ready"
            /\ plan_data = PlanObject(PyStr(a), PyStr(b))
            /\ ui = NoUi

C6_Witness ==
    /\ Parsed
    /\ response.body = WrappedBody(DirectBody(<<DQ, BS>>, <<"#", NL>>))
    /\ plan_data = PlanObject(PyStr(<<DQ, BS>>), PyStr(<<"#", NL>>))

Called == vout # NotCalled

InRange10(x, lo, hi) == 10 * lo <= x.v10 /\ x.v10 <= 10 * hi

AgeOk == InRange10(vin.age, AGE_MIN, AGE_MAX)
HeightOk == InRange10(vin.height, HEIGHT_MIN, HEIGHT_MAX)
WeightOk == InRange10(vin.weight, WEIGHT_MIN, WEIGHT_MAX)

\* C7: integer arguments inside the three ranges, the ends included, are
\* valid, with an empty message.
C7_InRangeAccepted ==
    (/\ Called
     /\ \A x \in {vin.age, vin.height, vin.weight} : x.ty = "int"
     /\ AgeOk /\ HeightOk /\ WeightOk)
        => vout = Returned(TRUE, "")

C7_Witness ==
    /\ vin = [age |-> IntNum(AGE_MIN), height |-> IntNum(HEIGHT_MAX),
              weight |-> IntNum(WEIGHT_MAX)]
    /\ vout = Returned(TRUE, "")

\* C8: numeric arguments with one outside its range are invalid, with the
\* message of an argument that is outside its range.
C8_OutOfRangeRejected ==
    (/\ Called
     /\ \A x \in {vin.age, vin.height, vin.weight} : x.ty \in {"int", "float"}
     /\ ~(AgeOk /\ HeightOk /\ WeightOk))
        => /\ vout.ok = FALSE
           /\ vout.msg \in ((IF AgeOk THEN {} ELSE {MSG_AGE})
                            \cup (IF HeightOk THEN {} ELSE {MSG_HEIGHT})
                            \cup (IF WeightOk THEN {} ELSE {MSG_WEIGHT}))

\* C9: the stored profile is inside the three ranges, with whole numbers.
C9_ProfileInRangeIntegers ==
    /\ user_data.age \in AGE_MIN..AGE_MAX
    /\ user_data.height \in HEIGHT_MIN..HEIGHT_MAX
    /\ InRange10(user_data.weight, WEIGHT_MIN, WEIGHT_MAX)
    /\ user_data.weight.v10 % 10 = 0

\* C10: with the key set, a request is out only for a valid profile, parsing
\* runs only on a 2xx response, and a generation ends Invalid, TransportFailed
\* or ParseFailed with an error and no plan, or Ready with a PlanResult.
C10_PipelineStateMachine ==
    api_key =>
        /\ (sent = 1 =>
               validate_user_inputs(IntNum(user_data.age), IntNum(user_data.height),
                                    user_data.weight).ok)
        /\ (pc = "Parsing" => response.kind = "ok")
        /\ outcome \in {"None", "Invalid", "TransportFailed", "ParseFailed", "Ready"}
        /\ (outcome \in {"TransportFailed", "ParseFailed"} =>
               (ui.error # "" /\ plan_data = PyNone))
        /\ (outcome = "Invalid" => ui.error # "")
        /\ (outcome = "Ready" => (pc = "Idle" /\ IsPlanResult(plan_data)))

\* C11: a generation calls requests.post at most once, however the request
\* ends, and while it is under way no further request goes out: the count of
\* requests changes only when the button's branch starts again.
C11_OneRequestPerGeneration ==
    [][ /\ sent' \in {0, 1}
        /\ outstanding' <= sent'
        /\ (pc # "Idle" => (sent' = sent /\ outstanding' <= outstanding)) ]_vars

C11_Witness ==
    /\ pc = "Idle"
    /\ outcome = "TransportFailed"
    /\ response.kind = "timeout"
    /\ sent = 1

Failures == {"ConfigError", "UserDataError", "TransportFailed", "ParseFailed"}

\* C13: a generation that fails shows an error and leaves no plan, and no
\* exception ends the run, neither in get_ai_plan nor where the layout draws
\* what get_ai_plan returned.
C13_FailuresBecomeErrors ==
    /\ (outcome \in Failures => (ui.error # "" /\ plan_data = PyNone))
    /\ fault.at \notin {"get_ai_plan", "plan tabs"}

MedicalGiven ==
    IF ~DictHas(args.user_info, K_MEDICAL) THEN <<>>
    ELSE IF DictGet(args.user_info, K_MEDICAL).t = "str"
         THEN DictGet(args.user_info, K_MEDICAL).v
         ELSE <<>>

\* C15: the prompt of a request holds the age, the gender, the BMI with two
\* decimals, and for the medical conditions the text given, or None when the
\* field is absent or empty.
C15_PromptEmbedsProfile ==
    pc = "Requesting" =>
        LET u == args.user_info IN
        /\ prompt.medical = IF MedicalGiven = <<>> THEN T_NONE ELSE MedicalGiven
        /\ (DictHas(u, K_AGE) /\ DictGet(u, K_AGE) = PyInt(25)) =>
              prompt.age = <<"2", "5">>
        /\ (DictHas(u, K_GENDER) /\ DictGet(u, K_GENDER).t = "str") =>
              prompt.gender = DictGet(u, K_GENDER).v
        /\ (DictHas(u, K_BMI) /\ DictGet(u, K_BMI) = PyFloat(2422)) =>
              prompt.bmi = <<"2", "4", ".", "2", "2">>
        /\ (DictHas(u, K_BMI) /\ DictGet(u, K_BMI) = PyInt(22)) =>
              prompt.bmi = <<"2", "2", ".", "0", "0">>

\* C16: when a generation that passed the validation has ended, plan_data is
\* what that generation produced, whatever was held before: the object
\* decoded from its response when it ended Ready, and None when it failed.
C16_PlanIsAttemptOutcome ==
    (pc = "Idle" /\ outcome \in Failures \cup {"Ready"}) =>
        IF outcome = "Ready"
        THEN /\ ParsedPlanObject.ok
             /\ plan_data = ParsedPlanObject.val
             /\ plan_data # PyNone
        ELSE plan_data = PyNone

C16_Witness ==
    /\ pc = "Idle"
    /\ outcome = "TransportFailed"
    /\ IsPlanResult(held)
    /\ plan_data = PyNone

\* The stored profile is the one the last validated press gave.
ProfileFromWidgets(ud, v) ==
    /\ IntNum(ud.age) = v.age
    /\ IntNum(ud.height) = v.height
    /\ ud.weight = v.weight

\* C17: a press whose validation fails leaves the profile, the plan, the
\* goals and the log as they were and sends nothing; the profile changes by a
\* press only when its validation passed, and a generation past the
\* validation holds the profile of its press however it ends.
C17_InvalidChangesNothing ==
    [][ /\ (outcome' = "Invalid" =>
              /\ ~vout'.ok
              /\ UNCHANGED <<user_data, plan_data, goals, progress_log, outstanding>>
              /\ sent' = 0
              /\ pc' = "Idle")
        /\ ((user_data' # user_data /\ progress_log' = progress_log) =>
              (vout'.ok /\ outcome' # "Invalid"))
        /\ ((pc' # "Idle" \/ outcome' \in Failures \cup {"Ready"}) =>
              (vout'.ok /\ ProfileFromWidgets(user_data', vin'))) ]_vars

C17_Witness ==
    /\ outcome = "Invalid"
    /\ vin.age = IntNum(AGE_MIN - 1)
    /\ IsPlanResult(plan_data)
    /\ user_data.age = AGE_MAX
    /\ Len(progress_log) = 1

\* C18: the dashboard's weight progress divides by a difference of the
\* stored weight and the target weight that is never zero, and no run ends
\* with a division by zero.
C18_WeightProgressComputable ==
    /\ user_data.weight.v10 - goals.target_weight.v10 # 0
    /\ fault.exc # "ZeroDivisionError"

=============================================================================
